---- MODULE Spec2Model ----
(***************************************************************************)
(* Checkout-to-order reconciliation of the storefront:                     *)
(*   - POST /api/stripe/checkout  (src/app/api/stripe/checkout/route.ts)   *)
(*   - POST /api/stripe/webhook   (src/app/api/stripe/webhook/route.ts)    *)
(* over the tables of src/supabase/migrations/001_initial_schema.sql.      *)
(*                                                                         *)
(* A JavaScript object is a TLA+ record; an absent property (undefined,    *)
(* a NULL column, a missing header) is a field that is not in the DOMAIN   *)
(* of the record.  A store call of supabase-js returns {data, error} and   *)
(* does not throw; stripe.checkout.sessions.create throws on failure.      *)
(*                                                                         *)
(* Spec runs one request at a time, each handler as one step.  FlightSpec  *)
(* interleaves the store calls of one checkout request and two deliveries  *)
(* of its checkout.session.completed event, one step per awaited call.     *)
(***************************************************************************)
EXTENDS Integers, Sequences, FiniteSets, TLC

(***************************************************************************)
(* Bounds of the model.                                                    *)
(***************************************************************************)
\* orders.insert is disabled once the orders table holds MaxOrders rows
MaxOrders == 1

VARIABLES
    orders,       \* table orders: sequence of rows, row i has id i
    order_items,  \* table order_items: sequence of rows (insertion order)
    cart_items,   \* table cart_items: set of rows
    sessions,     \* checkout sessions held by the payment processor
    req,          \* the request handled last
    resp,         \* the response returned for it
    calls,        \* the store / processor calls made while handling it
    failed        \* those of them that returned an error or threw

vars == <<orders, order_items, cart_items, sessions, req, resp, calls, failed>>

(***************************************************************************)
(* Small domains the inputs are drawn from.                                *)
(***************************************************************************)
Users == {"user_1", "user_2"}

Email(u) == <<u, "@example.com">>

\* table products (read-only for this workflow); price in cents
products ==
    { [id |-> "prod_A", name |-> "Amber", price |-> 1000],
      [id |-> "prod_B", name |-> "Birch", price |-> 2500] }

\* a product id that is in no row of products
UnknownProductId == "prod_X"

Item(p, q) == [product_id |-> p, quantity |-> q]

\* cart_items arrays a client may send: none, one that lists a product twice,
\* one whose second product is unknown
PricedCart == << Item("prod_A", 2), Item("prod_B", 1), Item("prod_A", 1) >>

\* the priced cart with a price of the client's added to every item
TamperedCart ==
    [ i \in 1..Len(PricedCart) |->
          [ product_id |-> PricedCart[i].product_id,
            quantity   |-> PricedCart[i].quantity,
            price      |-> 1 ] ]

Carts ==
    { <<>>,
      PricedCart,
      << Item("prod_A", 1), Item(UnknownProductId, 1) >> }

RequiredAddressFields ==
    {"full_name", "address_line1", "city", "state", "postal_code", "country"}

GoodAddress ==
    [ full_name |-> "Ann", address_line1 |-> "1 Main St", city |-> "Rome",
      state |-> "RM", postal_code |-> "00100", country |-> "IT" ]

\* shipping_address values a client may send
Addresses ==
    { GoodAddress,
      [GoodAddress EXCEPT !.city = ""],
      [ full_name |-> "Ann", address_line1 |-> "1 Main St", city |-> "Rome",
        state |-> "RM", postal_code |-> "00100" ] }

\* request bodies: every cart with the good address; the priced cart with
\* each bad address; the empty cart with a bad address; a body without
\* cart_items and one without shipping_address; a body that carries prices
\* and a total of the client's
CheckoutBodies ==
    { [shipping_address |-> GoodAddress, cart_items |-> c] : c \in Carts }
    \cup { [shipping_address |-> a, cart_items |-> PricedCart] :
               a \in Addresses \ {GoodAddress} }
    \cup { [shipping_address |-> [GoodAddress EXCEPT !.city = ""], cart_items |-> <<>>] }
    \cup { [shipping_address |-> GoodAddress],
           [cart_items |-> PricedCart] }
    \cup { [shipping_address |-> GoodAddress, cart_items |-> TamperedCart,
             total_amount |-> 1] }

\* a request carries the user that supabase.auth.getUser() returns for its
\* session; it carries none when that call returns an error or no user
\* (sent with a body that would pass, and with one without shipping_address).
\* The handler reads user.id and user.email only to copy them into the rows
\* it writes, so every body is sent by one user and the body that passes by
\* each user.
CheckoutRequests ==
    { [handler |-> "checkout", user |-> "user_1", body |-> b] :
          b \in CheckoutBodies }
    \cup { [handler |-> "checkout", user |-> u,
               body |-> [shipping_address |-> GoodAddress, cart_items |-> PricedCart]] :
               u \in Users }
    \cup { [handler |-> "checkout",
             body |-> [shipping_address |-> GoodAddress, cart_items |-> PricedCart]],
           [handler |-> "checkout", body |-> [cart_items |-> PricedCart]] }

(***************************************************************************)
(* Helpers: objects.                                                       *)
(***************************************************************************)
Has(obj, f) == f \in DOMAIN obj

\* SQL UPDATE ... SET patch: the row with the columns of patch overwritten
Patch(row, patch) ==
    [ f \in DOMAIN row \cup DOMAIN patch |->
          IF f \in DOMAIN patch THEN patch[f] ELSE row[f] ]

(***************************************************************************)
(* types/index.ts: shippingAddressSchema.parse                             *)
(***************************************************************************)
\* a schema of z.string() without .min(1): an empty string passes
AddressParsesEmpty(a) ==
    \A f \in RequiredAddressFields : Has(a, f)

\* z.string().min(1) on every required field; optional fields may be absent
AddressParses(a) ==
    \A f \in RequiredAddressFields : Has(a, f) /\ a[f] # ""

(***************************************************************************)
(* What a handler run leaves behind: the tables, the response, the calls.  *)
(***************************************************************************)
Result(o, oi, ci, s, rs, cs) ==
    [ orders |-> o, order_items |-> oi, cart_items |-> ci, sessions |-> s,
      resp |-> rs, calls |-> cs ]

\* a catch that answers as if the request had succeeded
ErrorResponseSuccess(status, message) == [status |-> 200, success |-> TRUE]

\* NextResponse.json({ error }, { status }); a message is the sequence of
\* the pieces its template string joins
ErrorResponse(status, message) == [status |-> status, error |-> message]

(***************************************************************************)
(* checkout/route.ts: POST                                                 *)
(***************************************************************************)
\* .from('products').select('*').in('id', productIds)
SelectProducts(ids) == { p \in products : p.id \in ids }

\* products?.find(p => p.id === item.product_id): the rows found (none or one)
Find(rows, id) == { p \in rows : p.id = id }

Product(rows, id) == CHOOSE p \in rows : p.id = id

\* the product of the first cart item, found or not
FirstMissingHead(rows, cart) == cart[1].product_id

\* the first cart item whose product is not among the rows read
FirstMissing(rows, cart) ==
    LET i == CHOOSE k \in 1..Len(cart) :
                 /\ Find(rows, cart[k].product_id) = {}
                 /\ \A j \in 1..(k - 1) : Find(rows, cart[j].product_id) # {}
    IN  cart[i].product_id

\* a line item that charges each product once, whatever the quantity
LineItemSingle(rows, item) ==
    [ name        |-> Product(rows, item.product_id).name,
      unit_amount |-> Product(rows, item.product_id).price,
      quantity    |-> 1 ]

\* one line item of the payment session per cart item
LineItem(rows, item) ==
    [ name        |-> Product(rows, item.product_id).name,
      unit_amount |-> Product(rows, item.product_id).price,
      quantity    |-> item.quantity ]

\* a total that adds each unit price once, whatever the quantity
RECURSIVE TotalAmountUnitPrices(_, _)
TotalAmountUnitPrices(rows, cart) ==
    IF cart = <<>> THEN 0
    ELSE Product(rows, Head(cart).product_id).price
             + TotalAmountUnitPrices(rows, Tail(cart))

\* cart_items.reduce((sum, item) => sum + product.price * item.quantity, 0)
RECURSIVE TotalAmount(_, _)
TotalAmount(rows, cart) ==
    IF cart = <<>> THEN 0
    ELSE Product(rows, Head(cart).product_id).price * Head(cart).quantity
             + TotalAmount(rows, Tail(cart))

\* an order row inserted with the payment intent of its session already set
NewOrderWithIntent(id, user, total, address) ==
    [ id |-> id, user_id |-> user, email |-> Email(user),
      total_amount |-> total, status |-> "pending",
      shipping_address |-> address,
      stripe_payment_intent |-> <<"pi", id>> ]

\* an order row inserted as in progress
NewOrderProcessing(id, user, total, address) ==
    [ id |-> id, user_id |-> user, email |-> Email(user),
      total_amount |-> total, status |-> "processing",
      shipping_address |-> address ]

\* an order row inserted as already paid
NewOrderCompleted(id, user, total, address) ==
    [ id |-> id, user_id |-> user, email |-> Email(user),
      total_amount |-> total, status |-> "completed",
      shipping_address |-> address ]

\* the row given to .from('orders').insert, with the id the table assigns
NewOrder(id, user, total, address) ==
    [ id |-> id, user_id |-> user, email |-> Email(user),
      total_amount |-> total, status |-> "pending",
      shipping_address |-> address ]

\* an order_items row that takes the price the client sent, when it sent one
OrderItemClientPrice(rows, order_id, item) ==
    [ order_id      |-> order_id,
      product_id    |-> item.product_id,
      product_name  |-> Product(rows, item.product_id).name,
      product_price |-> IF Has(item, "price") THEN item.price
                        ELSE Product(rows, item.product_id).price,
      quantity      |-> item.quantity ]

\* an order_items row that leaves order_id out (NULL)
OrderItemDetached(rows, order_id, item) ==
    [ product_id    |-> item.product_id,
      product_name  |-> Product(rows, item.product_id).name,
      product_price |-> Product(rows, item.product_id).price,
      quantity      |-> item.quantity ]

\* one order_items row per cart item
OrderItem(rows, order_id, item) ==
    [ order_id      |-> order_id,
      product_id    |-> item.product_id,
      product_name  |-> Product(rows, item.product_id).name,
      product_price |-> Product(rows, item.product_id).price,
      quantity      |-> item.quantity ]

\* order_items: order_id REFERENCES orders(id) (a nullable column),
\* CHECK (quantity > 0); one INSERT statement stores all its rows or none
OrderItemsAccepted(tbl, rows) ==
    \A i \in 1..Len(rows) :
        /\ rows[i].quantity > 0
        /\ Has(rows[i], "order_id") =>
               \E k \in 1..Len(tbl) : tbl[k].id = rows[i].order_id

\* stripe.checkout.sessions.create({ line_items, metadata, ... })
NewSession(id, line_items, order_id, user) ==
    [ id |-> id, url |-> <<"https://checkout.stripe.com/", id>>,
      line_items |-> line_items,
      metadata |-> [order_id |-> order_id, user_id |-> user] ]

\* an update that writes the row back whole: the columns of the patch over
\* the row as it was inserted (pending, no references)
UpdateOrderWriteBack(tbl, id, patch) ==
    [ k \in 1..Len(tbl) |->
          IF tbl[k].id = id
          THEN Patch([ f \in DOMAIN tbl[k] \ {"stripe_session_id", "stripe_payment_intent"} |->
                         IF f = "status" THEN "pending" ELSE tbl[k][f] ],
                     patch)
          ELSE tbl[k] ]

\* an update without the id filter
UpdateEveryOrder(tbl, id, patch) ==
    [ k \in 1..Len(tbl) |-> Patch(tbl[k], patch) ]

\* .from('orders').update(patch).eq('id', id)
UpdateOrder(tbl, id, patch) ==
    [ k \in 1..Len(tbl) |-> IF tbl[k].id = id THEN Patch(tbl[k], patch) ELSE tbl[k] ]

\* a check that misses the array of length zero
CartIsMissing(body) == ~Has(body, "cart_items")

\* !cart_items || cart_items.length === 0
CartIsEmpty(body) == ~Has(body, "cart_items") \/ Len(body.cart_items) = 0

\* a 401 returned only after the catalog was read
UnauthorizedAfterCatalogRead ==
    Result(orders, order_items, cart_items, sessions,
           ErrorResponse(401, <<"Unauthorized">>), <<"products.select">>)

\* if (userError || !user) return 401, before request.json()
Unauthorized ==
    Result(orders, order_items, cart_items, sessions,
           ErrorResponse(401, <<"Unauthorized">>), <<>>)

\* the handler, run to its return, with the call named by fault failing
CheckoutRun(r, fault) ==
    IF ~Has(r, "user") THEN Unauthorized
    ELSE IF ~Has(r.body, "shipping_address")
            \/ ~AddressParses(r.body.shipping_address) THEN
        Result(orders, order_items, cart_items, sessions,
               ErrorResponse(500, <<"ZodError">>), <<>>)
    ELSE IF CartIsEmpty(r.body) THEN
        Result(orders, order_items, cart_items, sessions,
               ErrorResponse(400, <<"Cart is empty">>), <<>>)
    ELSE
    LET cart == r.body.cart_items
        rows == SelectProducts({ cart[i].product_id : i \in 1..Len(cart) })
        c1   == <<"products.select">>
    IN
    IF fault = "products.select" THEN
        Result(orders, order_items, cart_items, sessions,
               ErrorResponse(500, <<"productsError">>), c1)
    ELSE IF \E i \in 1..Len(cart) : Find(rows, cart[i].product_id) = {} THEN
        Result(orders, order_items, cart_items, sessions,
               ErrorResponse(500, <<"Product", FirstMissing(rows, cart), "not found">>),
               c1)
    ELSE
    LET lineItems == [ i \in 1..Len(cart) |-> LineItem(rows, cart[i]) ]
        order     == NewOrder(Len(orders) + 1, r.user, TotalAmount(rows, cart),
                              r.body.shipping_address)
        c2        == Append(c1, "orders.insert")
    IN
    IF fault = "orders.insert" THEN
        Result(orders, order_items, cart_items, sessions,
               ErrorResponse(500, <<"orderError">>), c2)
    ELSE
    LET orders1 == Append(orders, order)
        orderItems == [ i \in 1..Len(cart) |-> OrderItem(rows, order.id, cart[i]) ]
        c3 == Append(c2, "order_items.insert")
    IN
    IF fault = "order_items.insert" \/ ~OrderItemsAccepted(orders1, orderItems) THEN
        Result(orders1, order_items, cart_items, sessions,
               ErrorResponse(500, <<"orderItemsError">>), c3)
    ELSE
    LET items1 == order_items \o orderItems
        c4 == Append(c3, "sessions.create")
    IN
    IF fault = "sessions.create" THEN
        Result(orders1, items1, cart_items, sessions,
               ErrorResponse(500, <<"StripeError">>), c4)
    ELSE
    LET session == NewSession(Len(sessions) + 1, lineItems, order.id, r.user)
        orders2 == IF fault = "orders.update" THEN orders1
                   ELSE UpdateOrder(orders1, order.id,
                                    [stripe_session_id |-> session.id])
    IN
        Result(orders2, items1, cart_items, Append(sessions, session),
               [ status |-> 200, success |-> TRUE,
                 data |-> [session_id |-> session.id, url |-> session.url] ],
               Append(c4, "orders.update"))

\* a run takes effect; a run that would insert beyond MaxOrders is left out
Commit(r, out) ==
    /\ Len(out.orders) <= MaxOrders
    /\ orders' = out.orders
    /\ order_items' = out.order_items
    /\ cart_items' = out.cart_items
    /\ sessions' = out.sessions
    /\ req' = r
    /\ resp' = out.resp
    /\ calls' = out.calls

\* the elements of an array
Range(s) == { s[i] : i \in 1..Len(s) }

\* the call of a run of the handler that fails ("none": no call fails): only
\* a call the run makes can fail
CheckoutFaults(r) == {"none"} \cup Range(CheckoutRun(r, "none").calls)

Checkout(r, fault) ==
    /\ Commit(r, CheckoutRun(r, fault))
    /\ failed' = IF fault = "none" THEN {} ELSE {fault}

(***************************************************************************)
(* webhook/route.ts: POST                                                  *)
(***************************************************************************)
\* process.env.STRIPE_WEBHOOK_SECRET
WebhookSecret == "whsec_live"

\* the stripe-signature header a sender holding key computes for body
Sign(body, key) == [signed |-> body, key |-> key]

\* a verification that accepts every signature
ConstructEventUnchecked(body, signature, secret) == TRUE

\* stripe.webhooks.constructEvent(body, signature, secret) does not throw
ConstructEvent(body, signature, secret) == signature = Sign(body, secret)

OrderIds == 1..MaxOrders

\* the processor opens one payment intent per checkout session: the intent
\* of the session of order id; id 0 stands for a session of no order
PaymentIntentOf(id) == <<"pi", id>>

\* an order id that is the id of no row (orders.insert stops at MaxOrders)
UnknownOrderId == MaxOrders + 1

\* session.metadata: order_id and user_id, either of which may be absent;
\* one names an order that does not exist
Metadatas ==
    { [order_id |-> o, user_id |-> u] : o \in OrderIds, u \in Users }
    \cup { [order_id |-> UnknownOrderId, user_id |-> "user_1"] }
    \cup { [order_id |-> o] : o \in OrderIds }
    \cup { [user_id |-> u] : u \in Users }

Events ==
    { [ type |-> "checkout.session.completed",
        data |-> [object |->
                    [ metadata |-> m,
                      payment_intent |->
                          IF Has(m, "order_id") THEN PaymentIntentOf(m.order_id)
                          ELSE PaymentIntentOf(0) ]] ] : m \in Metadatas }
    \cup { [ type |-> "payment_intent.payment_failed",
             data |-> [object |-> [id |-> PaymentIntentOf(k)]] ] :
               k \in OrderIds \cup {0} }
    \cup { [ type |-> "charge.refunded", data |-> [object |-> [id |-> <<"ch", 1>>]] ] }

\* the events also delivered with a bad signature or with none
ProbeEvents ==
    { e \in Events :
          e.type = "checkout.session.completed" =>
              /\ DOMAIN e.data.object.metadata = {"order_id", "user_id"}
              /\ e.data.object.metadata.order_id \in OrderIds }

\* deliveries: signed by the processor, signed with another key, unsigned
WebhookRequests ==
    { [handler |-> "webhook", body |-> e, signature |-> Sign(e, WebhookSecret)] :
          e \in Events }
    \cup { [handler |-> "webhook", body |-> e, signature |-> Sign(e, "whsec_guess")] :
               e \in ProbeEvents }
    \cup { [handler |-> "webhook", body |-> e] : e \in ProbeEvents }


\* the response of the catch of the handler
AckHandlerFailed == [status |-> 500, error |-> <<"Webhook handler failed">>]

\* NextResponse.json({ received: true })
Ack == [status |-> 200, received |-> TRUE]

\* a patch that sets the status and leaves the payment intent out
CompletedPatchNoIntent(session) == [status |-> "completed"]

\* a patch that marks the paid order as in progress
CompletedPatchProcessing(session) ==
    [status |-> "processing", stripe_payment_intent |-> session.payment_intent]

\* a patch that records the payment intent and leaves the status
CompletedPatchIntentOnly(session) ==
    [stripe_payment_intent |-> session.payment_intent]

\* the patch of the checkout.session.completed case
CompletedPatch(session) ==
    [status |-> "completed", stripe_payment_intent |-> session.payment_intent]

\* a patch that also zeroes the amount of the cancelled order
FailedPatchRefund == [status |-> "cancelled", total_amount |-> 0]

\* a patch that leaves the order in progress
FailedPatchProcessing == [status |-> "processing"]

\* the patch of the payment_intent.payment_failed case
FailedPatch == [status |-> "cancelled"]

\* a delete that is never sent
DeleteCartSkipped(tbl, userId) == tbl

\* a delete without the user filter
DeleteCartOfAll(tbl, userId) == {}

\* .from('cart_items').delete().eq('user_id', userId)
DeleteCart(tbl, userId) == { c \in tbl : c.user_id # userId }

\* a select without the payment-intent filter
SelectEveryOrder(tbl, id) == { tbl[k].id : k \in 1..Len(tbl) }

\* .from('orders').select('id').eq('stripe_payment_intent', id): the ids found
SelectByPaymentIntent(tbl, id) ==
    { tbl[k].id : k \in { j \in 1..Len(tbl) :
                            /\ Has(tbl[j], "stripe_payment_intent")
                            /\ tbl[j].stripe_payment_intent = id } }

\* a break that comes only after the cart of the event's user was cleared
MissingOrderIdClearsCart(session) ==
    IF Has(session.metadata, "user_id") THEN
        Result(orders, order_items, DeleteCart(cart_items, session.metadata.user_id),
               sessions, Ack, <<"cart_items.delete">>)
    ELSE
        Result(orders, order_items, cart_items, sessions, Ack, <<>>)

\* if (!orderId) break: nothing is written, the event is acknowledged
MissingOrderId(session) ==
    Result(orders, order_items, cart_items, sessions, Ack, <<>>)

\* case 'checkout.session.completed'
HandleCompleted(session, faults) ==
    IF ~Has(session.metadata, "order_id") THEN MissingOrderId(session)
    ELSE
    LET orders1 == IF "orders.update" \in faults THEN orders
                   ELSE UpdateOrder(orders, session.metadata.order_id,
                                    CompletedPatch(session))
    IN
    IF Has(session.metadata, "user_id") THEN
        Result(orders1, order_items,
               IF "cart_items.delete" \in faults THEN cart_items
               ELSE DeleteCart(cart_items, session.metadata.user_id),
               sessions, Ack, <<"orders.update", "cart_items.delete">>)
    ELSE
        Result(orders1, order_items, cart_items, sessions, Ack, <<"orders.update">>)

\* case 'payment_intent.payment_failed'; the select has no ORDER BY, so any
\* of the rows found may be orders[0]: first names the one that is
HandleFailed(paymentIntent, faults, first) ==
    LET found == IF "orders.select" \in faults THEN {}
                 ELSE SelectByPaymentIntent(orders, paymentIntent.id)
    IN
    IF found # {} /\ first \in found THEN
        Result(IF "orders.update" \in faults THEN orders
               ELSE UpdateOrder(orders, first, FailedPatch),
               order_items, cart_items, sessions, Ack,
               <<"orders.select", "orders.update">>)
    ELSE
        Result(orders, order_items, cart_items, sessions, Ack, <<"orders.select">>)

\* the handler, run to its return
WebhookRun(r, faults, first) ==
    IF ~Has(r, "signature") THEN
        Result(orders, order_items, cart_items, sessions,
               ErrorResponse(400, <<"No signature">>), <<>>)
    ELSE IF ~ConstructEvent(r.body, r.signature, WebhookSecret) THEN
        Result(orders, order_items, cart_items, sessions,
               ErrorResponse(400, <<"Webhook Error">>), <<>>)
    ELSE IF r.body.type = "checkout.session.completed" THEN
        HandleCompleted(r.body.data.object, faults)
    ELSE IF r.body.type = "payment_intent.payment_failed" THEN
        HandleFailed(r.body.data.object, faults, first)
    ELSE
        Result(orders, order_items, cart_items, sessions, Ack, <<>>)

\* the store calls of a run that return an error: any of those it makes,
\* and after a failed select no update is made
WebhookFaults(r, first) ==
    { f \in SUBSET Range(WebhookRun(r, {}, first).calls) :
          "orders.select" \in f => f = {"orders.select"} }

\* the ids that may be orders[0] in a run (any id when none is read)
Firsts(r) ==
    IF Has(r, "signature") /\ ConstructEvent(r.body, r.signature, WebhookSecret)
       /\ r.body.type = "payment_intent.payment_failed"
       /\ SelectByPaymentIntent(orders, r.body.data.object.id) # {}
    THEN SelectByPaymentIntent(orders, r.body.data.object.id)
    ELSE {1}

Webhook(r, faults, first) ==
    /\ Commit(r, WebhookRun(r, faults, first))
    /\ failed' = faults

(***************************************************************************)
(* The storefront adds a row to the signed-in user's cart.                 *)
(***************************************************************************)
AddToCart(u, p) ==
    /\ \A c \in cart_items : ~(c.user_id = u /\ c.product_id = p)
    /\ cart_items' = cart_items \cup {[user_id |-> u, product_id |-> p, quantity |-> 1]}
    /\ req' = [handler |-> "cart", user |-> u, product_id |-> p]
    /\ resp' = [status |-> 200, success |-> TRUE]
    /\ calls' = <<"cart_items.insert">>
    /\ failed' = {}
    /\ UNCHANGED <<orders, order_items, sessions>>

(***************************************************************************)
(* The specification.                                                      *)
(***************************************************************************)
Init ==
    /\ orders = <<>>
    /\ order_items = <<>>
    /\ cart_items = {}
    /\ sessions = <<>>
    /\ req = <<>>
    /\ resp = <<>>
    /\ calls = <<>>
    /\ failed = {}

Next ==
    \/ \E r \in CheckoutRequests :
           \E fault \in CheckoutFaults(r) : Checkout(r, fault)
    \/ \E r \in WebhookRequests :
           \E first \in Firsts(r) :
               \E faults \in WebhookFaults(r, first) : Webhook(r, faults, first)
    \/ \E u \in Users, p \in {"prod_A"} : AddToCart(u, p)

Spec == Init /\ [][Next]_vars

(***************************************************************************)
(* Requests in flight at the same time.  The checkout of a user has        *)
(* inserted its order and its items and created the payment session        *)
(* (route.ts 63-107) and has yet to store the session id (110-113); the    *)
(* processor delivers the checkout.session.completed event of that         *)
(* session twice.  Each store call is one step, so the calls of the three  *)
(* requests interleave; a call returns an error or not.  Here req, resp,   *)
(* calls and failed hold one value per request in flight (resp is <<>>     *)
(* until the request is answered).                                         *)
(***************************************************************************)
Deliveries == {"delivery_1", "delivery_2"}

Procs == {"checkout"} \cup Deliveries

\* the checkout request in flight
FlightCheckout(u) ==
    [ handler |-> "checkout", user |-> u,
      body |-> [shipping_address |-> GoodAddress, cart_items |-> PricedCart] ]

\* the order row and the order_items rows it has inserted
FlightOrder(u) ==
    NewOrder(1, u, TotalAmount(products, PricedCart), GoodAddress)

FlightItems ==
    [ i \in 1..Len(PricedCart) |-> OrderItem(products, 1, PricedCart[i]) ]

\* the session it has created
FlightSession(u) ==
    NewSession(1, [ i \in 1..Len(PricedCart) |-> LineItem(products, PricedCart[i]) ],
               1, u)

\* the event the processor sends when the session is paid: it carries the
\* metadata of the session
CompletedEvent(s) ==
    [ type |-> "checkout.session.completed",
      data |-> [object |-> [ metadata |-> s.metadata,
                             payment_intent |-> PaymentIntentOf(s.metadata.order_id) ]] ]

FlightDelivery(u) ==
    [ handler |-> "webhook", body |-> CompletedEvent(FlightSession(u)),
      signature |-> Sign(CompletedEvent(FlightSession(u)), WebhookSecret) ]

\* the rows the cart table may hold
CartRows ==
    { [user_id |-> u, product_id |-> p, quantity |-> 1] :
          u \in Users, p \in {"prod_A", "prod_B"} }

\* the calls the checkout has made when sessions.create has returned
CallsToSession ==
    <<"products.select", "orders.insert", "order_items.insert", "sessions.create">>

FlightInit ==
    \E u \in Users, cart \in SUBSET CartRows :
        /\ orders = << FlightOrder(u) >>
        /\ order_items = FlightItems
        /\ cart_items = cart
        /\ sessions = << FlightSession(u) >>
        /\ req = [ p \in Procs |->
                     IF p = "checkout" THEN FlightCheckout(u) ELSE FlightDelivery(u) ]
        /\ resp = [ p \in Procs |-> <<>> ]
        /\ calls = [ p \in Procs |-> IF p = "checkout" THEN CallsToSession ELSE <<>> ]
        /\ failed = [ p \in Procs |-> {} ]

\* process p has made call c, which returned an error iff ~ok
Called(p, c, ok) ==
    /\ calls' = [calls EXCEPT ![p] = Append(@, c)]
    /\ failed' = IF ok THEN failed ELSE [failed EXCEPT ![p] = @ \cup {c}]

\* checkout route.ts 110-113: update({ stripe_session_id }).eq('id', order.id)
CheckoutStoreSession(ok) ==
    /\ calls["checkout"] = CallsToSession
    /\ orders' = IF ok THEN UpdateOrder(orders, sessions[1].metadata.order_id,
                                        [stripe_session_id |-> sessions[1].id])
                  ELSE orders
    /\ Called("checkout", "orders.update", ok)
    /\ UNCHANGED <<order_items, cart_items, sessions, req, resp>>

\* checkout route.ts 115-121
CheckoutReturn ==
    /\ Len(calls["checkout"]) = Len(CallsToSession) + 1
    /\ resp["checkout"] = <<>>
    /\ resp' = [resp EXCEPT !["checkout"] =
                    [ status |-> 200, success |-> TRUE,
                      data |-> [session_id |-> sessions[1].id, url |-> sessions[1].url] ]]
    /\ UNCHANGED <<orders, order_items, cart_items, sessions, req, calls, failed>>

\* webhook route.ts 11-55: the signature is verified, then the orders update
DeliveryUpdate(d, ok) ==
    /\ calls[d] = <<>>
    /\ Has(req[d], "signature")
    /\ ConstructEvent(req[d].body, req[d].signature, WebhookSecret)
    /\ req[d].body.type = "checkout.session.completed"
    /\ Has(req[d].body.data.object.metadata, "order_id")
    /\ orders' = IF ok THEN UpdateOrder(orders, req[d].body.data.object.metadata.order_id,
                                        CompletedPatch(req[d].body.data.object))
                  ELSE orders
    /\ Called(d, "orders.update", ok)
    /\ UNCHANGED <<order_items, cart_items, sessions, req, resp>>

\* webhook route.ts 58-63
DeliveryDelete(d, ok) ==
    /\ calls[d] = <<"orders.update">>
    /\ Has(req[d].body.data.object.metadata, "user_id")
    /\ cart_items' = IF ok THEN DeleteCart(cart_items,
                                            req[d].body.data.object.metadata.user_id)
                      ELSE cart_items
    /\ Called(d, "cart_items.delete", ok)
    /\ UNCHANGED <<orders, order_items, sessions, req, resp>>

\* webhook route.ts 91
DeliveryAck(d) ==
    /\ calls[d] = <<"orders.update", "cart_items.delete">>
    /\ resp[d] = <<>>
    /\ resp' = [resp EXCEPT ![d] = Ack]
    /\ UNCHANGED <<orders, order_items, cart_items, sessions, req, calls, failed>>

FlightNext ==
    \/ \E ok \in BOOLEAN : CheckoutStoreSession(ok)
    \/ CheckoutReturn
    \/ \E d \in Deliveries, ok \in BOOLEAN : DeliveryUpdate(d, ok)
    \/ \E d \in Deliveries, ok \in BOOLEAN : DeliveryDelete(d, ok)
    \/ \E d \in Deliveries : DeliveryAck(d)

FlightSpec == FlightInit /\ [][FlightNext]_vars

(***************************************************************************)
(* Properties.                                                             *)
(***************************************************************************)
IsCheckout == Has(req, "handler") /\ req.handler = "checkout"

IsWebhook == Has(req, "handler") /\ req.handler = "webhook"

\* the last request was a checkout that returned a redirect URL
Redirected == IsCheckout /\ Has(resp, "data")

\* the order created by the checkout handled last (it returned a redirect)
RedirectedOrderId == sessions[resp.data.session_id].metadata.order_id

\* the order_items rows of an order, in insertion order
ItemsOf(id) ==
    SelectSeq(order_items, LAMBDA row : Has(row, "order_id") /\ row.order_id = id)

RECURSIVE SumOfItems(_)
SumOfItems(items) ==
    IF items = <<>> THEN 0
    ELSE Head(items).product_price * Head(items).quantity + SumOfItems(Tail(items))

\* the price of a product in the catalog
CatalogPrice(id) == (CHOOSE p \in products : p.id = id).price

\* C1: after a checkout that returned a redirect URL, the order's total_amount
\* is the sum of product_price * quantity over the order_items rows written
\* for it, one row per cart item, at the catalog price of the item's product.
C1_TotalIsSumOfItems ==
    Redirected =>
        LET id    == RedirectedOrderId
            items == ItemsOf(id)
            cart  == req.body.cart_items
        IN  /\ orders[id].total_amount = SumOfItems(items)
            /\ Len(items) = Len(cart)
            /\ \A i \in 1..Len(cart) :
                   /\ items[i].product_id = cart[i].product_id
                   /\ items[i].quantity = cart[i].quantity
                   /\ items[i].product_price = CatalogPrice(cart[i].product_id)

\* a redirect was returned for a cart that lists prod_A twice (2 and 1) and
\* prod_B once: 2 * 1000 + 2500 + 1000
C1_Witness ==
    /\ Redirected
    /\ req.body.cart_items = PricedCart
    /\ orders[RedirectedOrderId].total_amount = 5500
    /\ Len(ItemsOf(RedirectedOrderId)) = 3

\* C2: every order row has at least one order_items row (a handler runs to
\* its return in one step, so every state is one in which no request is
\* in progress).
C2_EveryOrderHasItems ==
    \A k \in 1..Len(orders) : ItemsOf(orders[k].id) # <<>>

\* C3: every order_items row references an order row that exists.
C3_ItemsHaveParent ==
    \A i \in 1..Len(order_items) :
        /\ Has(order_items[i], "order_id")
        /\ \E k \in 1..Len(orders) : orders[k].id = order_items[i].order_id

\* order_items rows were written
C3_Witness ==
    /\ Len(order_items) >= 2
    /\ \E k \in 1..Len(orders) : orders[k].id = order_items[1].order_id

CatalogIds == { p.id : p \in products }

\* the last request was a checkout for which getUser returned a user
AuthenticatedCheckout == IsCheckout /\ Has(req, "user")

\* the last request carried a shipping address that passes validation
ValidAddressSent ==
    /\ Has(req.body, "shipping_address")
    /\ \A f \in RequiredAddressFields :
           Has(req.body.shipping_address, f) /\ req.body.shipping_address[f] # ""

\* a step that adds no order, no order item and no payment session
NothingCreated ==
    /\ orders' = orders
    /\ order_items' = order_items
    /\ sessions' = sessions

\* the last request: signed in, valid address, a cart with an unknown product
C4_Case ==
    /\ AuthenticatedCheckout
    /\ ValidAddressSent
    /\ Has(req.body, "cart_items")
    /\ \E i \in 1..Len(req.body.cart_items) :
           req.body.cart_items[i].product_id \notin CatalogIds

\* the response names a product of the cart that is not in the catalog
UnknownProductResponse ==
    /\ resp.status = 500
    /\ \E i \in 1..Len(req.body.cart_items) :
           /\ req.body.cart_items[i].product_id \notin CatalogIds
           /\ resp.error = <<"Product", req.body.cart_items[i].product_id, "not found">>

\* C4 as stated: such a request always fails with the UnknownProduct error
\* and creates no order, no order item and no payment session.
C4_AlwaysUnknownProduct ==
    [][C4_Case' => (UnknownProductResponse' /\ NothingCreated)]_vars

\* C4 as amended: such a request creates no order, no order item and no
\* payment session; it fails with the UnknownProduct error, or, when the
\* catalog read itself fails, with the error of that read.
C4_UnknownProductCreatesNothing ==
    [][C4_Case' =>
          /\ NothingCreated
          /\ \/ UnknownProductResponse'
             \/ resp' = ErrorResponse(500, <<"productsError">>)]_vars

\* a cart whose first product is known and whose second is not was refused
\* with the UnknownProduct error, and the processor holds no session
C4_Witness ==
    /\ C4_Case
    /\ req.body.cart_items = << Item("prod_A", 1), Item(UnknownProductId, 1) >>
    /\ UnknownProductResponse
    /\ sessions = <<>>

\* the last request: signed in, cart_items missing or of length zero
C5_Case ==
    /\ AuthenticatedCheckout
    /\ (~Has(req.body, "cart_items") \/ req.body.cart_items = <<>>)

\* C5 as stated: an empty cart is always answered with the EmptyCart error
\* and creates nothing, whatever the shipping address.
C5_AlwaysEmptyCart ==
    [][C5_Case' =>
          (resp' = ErrorResponse(400, <<"Cart is empty">>) /\ NothingCreated)]_vars

\* C5 as amended: an empty cart creates nothing; it is answered with the
\* EmptyCart error when the shipping address passes validation, and with the
\* validation error of the address otherwise.
C5_EmptyCartAfterAddress ==
    [][C5_Case' =>
          /\ NothingCreated
          /\ resp' = IF ValidAddressSent'
                     THEN ErrorResponse(400, <<"Cart is empty">>)
                     ELSE ErrorResponse(500, <<"ZodError">>)]_vars

\* an empty cart sent with a valid address was answered with EmptyCart
C5_Witness ==
    /\ C5_Case
    /\ ValidAddressSent
    /\ Has(req.body, "cart_items")
    /\ resp = ErrorResponse(400, <<"Cart is empty">>)

\* r is a delivery, signed with the webhook secret, of a
\* checkout.session.completed event whose metadata names order id
VerifiedCompletedFor(r, id) ==
    /\ Has(r, "handler") /\ r.handler = "webhook"
    /\ Has(r, "signature") /\ r.signature = Sign(r.body, WebhookSecret)
    /\ r.body.type = "checkout.session.completed"
    /\ Has(r.body.data.object.metadata, "order_id")
    /\ r.body.data.object.metadata.order_id = id

\* order row k already carries the payment intent of the event of r
AlreadyDelivered(k, r) ==
    /\ Has(orders[k], "stripe_payment_intent")
    /\ orders[k].stripe_payment_intent = r.body.data.object.payment_intent

\* C6: once an order is completed or cancelled, no step changes its status.
C6_StatusMonotonic ==
    [][\A k \in 1..Len(orders) :
          orders[k].status \in {"completed", "cancelled"} =>
              orders'[k].status = orders[k].status]_vars

\* C7: a checkout-completed event delivered again for an order that already
\* carries it makes no order write, leaves the order as it is, and is
\* acknowledged.
C7_RedeliveryWritesNothing ==
    [][\A k \in 1..Len(orders) :
          ( /\ VerifiedCompletedFor(req', orders[k].id)
            /\ AlreadyDelivered(k, req')
            /\ orders[k].status \in {"completed", "cancelled"} ) =>
              /\ "orders.update" \notin Range(calls')
              /\ orders'[k] = orders[k]
              /\ resp' = Ack]_vars

\* C8: a checkout-completed event delivered again for an order that is
\* already completed deletes no cart row.
C8_RedeliveryKeepsCart ==
    [][\A k \in 1..Len(orders) :
          ( /\ VerifiedCompletedFor(req', orders[k].id)
            /\ AlreadyDelivered(k, req')
            /\ orders[k].status = "completed" ) =>
              cart_items' = cart_items]_vars

\* the last request: a delivery without a signature header, or with one
\* that is not the signature of its body under the webhook secret
C9_Case ==
    /\ IsWebhook
    /\ (~Has(req, "signature") \/ req.signature # Sign(req.body, WebhookSecret))

\* C9: such a delivery is answered with an error, makes no store call and
\* leaves every table as it is.
C9_BadSignatureRejected ==
    [][C9_Case' =>
          /\ resp'.status = 400
          /\ Has(resp', "error")
          /\ calls' = <<>>
          /\ UNCHANGED <<orders, order_items, cart_items, sessions>>]_vars

\* a completed event signed with another key, naming a pending order and a
\* user with a cart, was rejected
C9_Witness ==
    /\ C9_Case
    /\ Has(req, "signature")
    /\ req.body.type = "checkout.session.completed"
    /\ Has(req.body.data.object.metadata, "order_id")
    /\ Has(req.body.data.object.metadata, "user_id")
    /\ \E k \in 1..Len(orders) :
           /\ orders[k].id = req.body.data.object.metadata.order_id
           /\ orders[k].status = "pending"
    /\ \E c \in cart_items : c.user_id = req.body.data.object.metadata.user_id
    /\ resp.status = 400

\* C10: an order becomes completed (is inserted as completed, or changes to
\* completed) only in a step that handles a verified checkout-completed
\* event whose metadata names that order.
C10_CompletedOnlyByVerifiedEvent ==
    [][\A k \in 1..Len(orders') :
          ( /\ orders'[k].status = "completed"
            /\ (k > Len(orders) \/ orders[k].status # "completed") ) =>
              VerifiedCompletedFor(req', orders'[k].id)]_vars

\* an order is completed after a verified checkout-completed event
C10_Witness ==
    /\ \E k \in 1..Len(orders) :
           orders[k].status = "completed" /\ VerifiedCompletedFor(req, orders[k].id)
    /\ resp = Ack

\* r is a delivery signed with the webhook secret
Verified(r) ==
    /\ Has(r, "handler") /\ r.handler = "webhook"
    /\ Has(r, "signature") /\ r.signature = Sign(r.body, WebhookSecret)

\* the step handles a verified checkout-completed event whose metadata names
\* order row k and a user
C11_Case(k) ==
    /\ k \in 1..Len(orders)
    /\ VerifiedCompletedFor(req', orders[k].id)
    /\ Has(req'.body.data.object.metadata, "user_id")

\* order row k after the step is completed and carries the event's intent
CompletedBy(k, e) ==
    /\ orders'[k].status = "completed"
    /\ Has(orders'[k], "stripe_payment_intent")
    /\ orders'[k].stripe_payment_intent = e.data.object.payment_intent

\* the cart rows of the step's start without those of user u
CartWithout(u) == { c \in cart_items : c.user_id # u }

\* C11 as stated: the step completes the order, records the payment intent,
\* deletes the cart rows of the named user and no others, and acknowledges.
C11_CompletedEventEffects ==
    [][\A k \in 1..MaxOrders :
          C11_Case(k) =>
              /\ CompletedBy(k, req'.body)
              /\ cart_items' = CartWithout(req'.body.data.object.metadata.user_id)
              /\ resp' = Ack]_vars

\* C11 as amended: the step attempts both writes and acknowledges; the order
\* is completed with the event's payment intent unless the orders update
\* returned an error (then the orders table is as before), and the cart rows
\* of the named user, and no others, are deleted unless the cart delete
\* returned an error (then the cart table is as before).
C11_CompletedEventEffectsUnlessStoreError ==
    [][\A k \in 1..MaxOrders :
          C11_Case(k) =>
              /\ calls' = <<"orders.update", "cart_items.delete">>
              /\ IF "orders.update" \in failed' THEN orders' = orders
                 ELSE CompletedBy(k, req'.body)
              /\ cart_items' =
                     IF "cart_items.delete" \in failed' THEN cart_items
                     ELSE CartWithout(req'.body.data.object.metadata.user_id)
              /\ \A c \in cart_items :
                     c.user_id # req'.body.data.object.metadata.user_id =>
                         c \in cart_items'
              /\ resp' = Ack]_vars

\* a verified checkout-completed event naming order 1 and user_1 was handled
\* without a store error: the order is completed with the event's intent,
\* user_1 has no cart row and user_2 still has one
C11_Witness ==
    /\ VerifiedCompletedFor(req, 1)
    /\ Has(req.body.data.object.metadata, "user_id")
    /\ req.body.data.object.metadata.user_id = "user_1"
    /\ failed = {}
    /\ Len(orders) >= 1
    /\ orders[1].status = "completed"
    /\ Has(orders[1], "stripe_payment_intent")
    /\ orders[1].stripe_payment_intent = req.body.data.object.payment_intent
    /\ \A c \in cart_items : c.user_id # "user_1"
    /\ \E c \in cart_items : c.user_id = "user_2"
    /\ resp = Ack

\* r is a delivery, signed with the webhook secret, of a payment-failed event
VerifiedFailed(r) ==
    /\ Verified(r)
    /\ r.body.type = "payment_intent.payment_failed"

\* order row k carries the payment intent of the payment-failed event e
IntentMatches(k, e) ==
    /\ Has(orders[k], "stripe_payment_intent")
    /\ orders[k].stripe_payment_intent = e.data.object.id

\* C12: a step that handles a verified payment-failed event whose payment
\* intent is on no order row answers with the acknowledgment and leaves the
\* orders table and the cart table as they are.
C12_UnmatchedFailureIsNoOp ==
    [][( /\ VerifiedFailed(req')
         /\ \A k \in 1..Len(orders) : ~IntentMatches(k, req'.body) ) =>
            /\ resp' = Ack
            /\ orders' = orders
            /\ cart_items' = cart_items]_vars

\* a verified payment-failed event was acknowledged while the store holds an
\* order, none with the event's payment intent, and a cart row
C12_Witness ==
    /\ VerifiedFailed(req)
    /\ failed = {}
    /\ Len(orders) >= 1
    /\ \A k \in 1..Len(orders) : ~IntentMatches(k, req.body)
    /\ cart_items # {}
    /\ resp = Ack

\* the step handles a verified payment-failed event whose payment intent
\* is the one stored on order row k
C13_Case(k) ==
    /\ k \in 1..Len(orders)
    /\ VerifiedFailed(req')
    /\ IntentMatches(k, req'.body)

\* C13 as stated: the step leaves the order cancelled and acknowledges.
C13_MatchedFailureCancels ==
    [][\A k \in 1..MaxOrders :
          C13_Case(k) => (orders'[k].status = "cancelled" /\ resp' = Ack)]_vars

\* C13 as amended: the step acknowledges; the order is cancelled (nothing
\* else of it changes) unless the orders select or the orders update
\* returned an error, and then the orders table is as before.
C13_MatchedFailureCancelsUnlessStoreError ==
    [][\A k \in 1..MaxOrders :
          C13_Case(k) =>
              /\ resp' = Ack
              /\ orders' = IF failed' = {}
                           THEN [orders EXCEPT ![k].status = "cancelled"]
                           ELSE orders]_vars

\* a verified payment-failed event carrying the intent stored on an order
\* was handled without a store error: the order is cancelled
C13_Witness ==
    /\ VerifiedFailed(req)
    /\ failed = {}
    /\ \E k \in 1..Len(orders) :
           IntentMatches(k, req.body) /\ orders[k].status = "cancelled"
    /\ resp = Ack

\* r is a delivery, signed with the webhook secret, of an event of a type
\* the switch has no case for
VerifiedOther(r) ==
    /\ Verified(r)
    /\ r.body.type \notin {"checkout.session.completed",
                           "payment_intent.payment_failed"}

\* C14: a step that handles a verified event of another type answers 200
\* { received: true }, makes no store call and leaves the orders table and
\* the cart table as they are.
C14_OtherEventIgnored ==
    [][VerifiedOther(req') =>
          /\ resp'.status = 200
          /\ Has(resp', "received") /\ resp'.received = TRUE
          /\ ~Has(resp', "error")
          /\ calls' = <<>>
          /\ orders' = orders
          /\ cart_items' = cart_items]_vars

\* a verified charge.refunded event was acknowledged while the store holds
\* an order and a cart row
C14_Witness ==
    /\ VerifiedOther(req)
    /\ req.body.type = "charge.refunded"
    /\ Len(orders) >= 1
    /\ cart_items # {}
    /\ resp.status = 200

\* the step handles a checkout request for which getUser gave no user
UnauthenticatedCheckout(r) ==
    /\ Has(r, "handler") /\ r.handler = "checkout"
    /\ ~Has(r, "user")

\* C15: such a step answers 401 Unauthorized whatever the body, makes no
\* store or processor call (no catalog read), and adds no order, no order
\* item and no payment session.
C15_UnauthenticatedRejectedFirst ==
    [][UnauthenticatedCheckout(req') =>
          /\ resp' = ErrorResponse(401, <<"Unauthorized">>)
          /\ calls' = <<>>
          /\ NothingCreated
          /\ cart_items' = cart_items]_vars

\* a request without a user and without a shipping address was answered 401,
\* not with the validation error of its body
C15_Witness ==
    /\ UnauthenticatedCheckout(req)
    /\ ~Has(req.body, "shipping_address")
    /\ resp.status = 401
    /\ calls = <<>>

\* C16: a step that handles a checkout request whose shipping address is
\* missing, or has a required field missing or empty, answers with an error
\* and adds no order, no order item and no payment session (it makes no
\* store or processor call at all).
C16_InvalidAddressMutatesNothing ==
    [][(IsCheckout' /\ ~ValidAddressSent') =>
          /\ Has(resp', "error")
          /\ resp'.status \in {401, 500}
          /\ (Has(req', "user") => resp' = ErrorResponse(500, <<"ZodError">>))
          /\ calls' = <<>>
          /\ NothingCreated
          /\ cart_items' = cart_items]_vars

\* a signed-in user's request with a priced cart and an address whose city
\* is empty was answered with the validation error
C16_Witness ==
    /\ AuthenticatedCheckout
    /\ Has(req.body, "shipping_address")
    /\ Has(req.body.shipping_address, "city")
    /\ req.body.shipping_address.city = ""
    /\ Has(req.body, "cart_items")
    /\ req.body.cart_items = PricedCart
    /\ resp = ErrorResponse(500, <<"ZodError">>)

\* the order named by the metadata of a payment session is a row of the
\* orders table and has as many order_items rows as the session has lines
SessionHasOrderWithItems(s) ==
    /\ s.metadata.order_id \in 1..Len(orders)
    /\ orders[s.metadata.order_id].id = s.metadata.order_id
    /\ Len(s.line_items) > 0
    /\ Len(ItemsOf(s.metadata.order_id)) = Len(s.line_items)

\* the position of call c in the calls of the last request (0: not made)
CallIndex(c) ==
    IF \E i \in 1..Len(calls) : calls[i] = c
    THEN CHOOSE i \in 1..Len(calls) : calls[i] = c
    ELSE 0

\* the last request was a checkout that called stripe.checkout.sessions.create
\* (the state is the one the handler left): the orders insert and the
\* order_items insert were made before that call, in this order, neither
\* returned an error, and the order they stored, the newest, is pending and
\* has one item per cart item
OrderStoredBeforeSessionCall ==
    (IsCheckout /\ CallIndex("sessions.create") > 0) =>
        /\ 0 < CallIndex("orders.insert")
        /\ CallIndex("orders.insert") < CallIndex("order_items.insert")
        /\ CallIndex("order_items.insert") < CallIndex("sessions.create")
        /\ failed \cap {"orders.insert", "order_items.insert"} = {}
        /\ Len(orders) >= 1
        /\ orders[Len(orders)].status = "pending"
        /\ orders[Len(orders)].user_id = req.user
        /\ Len(ItemsOf(Len(orders))) = Len(req.body.cart_items)
        /\ (Has(resp, "data") =>
                sessions[resp.data.session_id].metadata.order_id = Len(orders))

\* every payment session names a stored order that has its items
SessionsHaveOrders ==
    \A i \in 1..Len(sessions) : SessionHasOrderWithItems(sessions[i])

\* C17: a checkout calls sessions.create only after it stored the pending
\* order and its items, and in every state each payment session names a
\* stored order that has its items.
C17_OrderPersistedBeforeSession ==
    OrderStoredBeforeSessionCall /\ SessionsHaveOrders

\* a checkout created a session for the priced cart: the session names the
\* stored order, which is pending and has its three items
C17_Witness ==
    /\ IsCheckout
    /\ calls = <<"products.select", "orders.insert", "order_items.insert",
                 "sessions.create", "orders.update">>
    /\ Len(sessions) = 1
    /\ SessionHasOrderWithItems(sessions[1])
    /\ orders[sessions[1].metadata.order_id].status = "pending"
    /\ Len(ItemsOf(sessions[1].metadata.order_id)) = 3

\* C18: after a checkout that returned a redirect URL, the order's
\* stripe_session_id is the id of the session created for it, whether or not
\* the update that stores it returned an error.
C18_RedirectedOrderHasSessionId ==
    Redirected =>
        /\ Has(orders[RedirectedOrderId], "stripe_session_id")
        /\ orders[RedirectedOrderId].stripe_session_id = resp.data.session_id

\* the step handles a checkout in which stripe.checkout.sessions.create threw
SessionCreationFailed ==
    /\ IsCheckout'
    /\ "sessions.create" \in failed'

\* the orders table after the step: the rows before it, then a pending order
\* of the request's user
PendingOrderAdded ==
    /\ Len(orders') = Len(orders) + 1
    /\ \A k \in 1..Len(orders) : orders'[k] = orders[k]
    /\ orders'[Len(orders')].id = Len(orders')
    /\ orders'[Len(orders')].status = "pending"
    /\ orders'[Len(orders')].user_id = req'.user

\* the order_items table after the step: the rows before it, then one row of
\* the new order per cart item
ItemsOfNewOrderAdded ==
    /\ Len(order_items') = Len(order_items) + Len(req'.body.cart_items)
    /\ \A i \in 1..Len(order_items) : order_items'[i] = order_items[i]
    /\ \A i \in 1..Len(req'.body.cart_items) :
           LET row == order_items'[Len(order_items) + i]
           IN  /\ Has(row, "order_id") /\ row.order_id = Len(orders')
               /\ row.product_id = req'.body.cart_items[i].product_id
               /\ row.quantity = req'.body.cart_items[i].quantity

\* no step removes an order row or an order_items row
NothingRolledBack ==
    /\ Len(orders') >= Len(orders)
    /\ Len(order_items') >= Len(order_items)
    /\ \A i \in 1..Len(order_items) : order_items'[i] = order_items[i]

\* C19: a checkout step in which the creation of the payment session fails
\* answers with an error (status 500, no redirect URL), creates no session,
\* and leaves the order it inserted in the store, pending, with its items;
\* no step ever removes an order row or an order_items row.
C19_FailedSessionKeepsPendingOrder ==
    [][/\ NothingRolledBack
       /\ SessionCreationFailed =>
              /\ resp'.status = 500
              /\ Has(resp', "error")
              /\ ~Has(resp', "data")
              /\ sessions' = sessions
              /\ PendingOrderAdded
              /\ ItemsOfNewOrderAdded]_vars

\* sessions.create failed for the priced cart: the caller got an error, the
\* order is stored pending with its three items, the processor has no session
C19_Witness ==
    /\ IsCheckout
    /\ failed = {"sessions.create"}
    /\ resp.status = 500
    /\ Len(orders) = 1
    /\ orders[1].status = "pending"
    /\ Len(ItemsOf(1)) = 3
    /\ sessions = <<>>

RECURSIVE SumOfLines(_)
SumOfLines(lines) ==
    IF lines = <<>> THEN 0
    ELSE Head(lines).unit_amount * Head(lines).quantity + SumOfLines(Tail(lines))

\* the line items of session s are, line by line, the order_items rows of
\* the order its metadata names, at catalog prices, and add up to the
\* order's total_amount; the metadata names the order's user
SessionMatchesOrder(s) ==
    LET id    == s.metadata.order_id
        items == ItemsOf(id)
    IN  /\ id \in 1..Len(orders)
        /\ Len(s.line_items) = Len(items)
        /\ \A i \in 1..Len(items) :
               /\ s.line_items[i].unit_amount = items[i].product_price
               /\ s.line_items[i].unit_amount = CatalogPrice(items[i].product_id)
               /\ s.line_items[i].quantity = items[i].quantity
        /\ SumOfLines(s.line_items) = orders[id].total_amount
        /\ s.metadata.user_id = orders[id].user_id

\* the session of the checkout that was just answered with a redirect has
\* one line per cart line of the request, in the same order, and its
\* metadata carries the id of the order the request inserted (the newest)
\* and the id of the request's user
SessionMatchesRequest ==
    Redirected =>
        LET s    == sessions[resp.data.session_id]
            cart == req.body.cart_items
        IN  /\ Len(s.line_items) = Len(cart)
            /\ \A i \in 1..Len(cart) :
                   /\ s.line_items[i].unit_amount = CatalogPrice(cart[i].product_id)
                   /\ s.line_items[i].quantity = cart[i].quantity
            /\ CallIndex("orders.insert") > 0
            /\ s.metadata = [order_id |-> Len(orders), user_id |-> req.user]

\* every session of the processor matches its order
SessionsMatchOrders ==
    \A i \in 1..Len(sessions) : SessionMatchesOrder(sessions[i])

\* C20: the session a checkout creates is built from the request's cart line
\* by line and carries the new order's id and the user's id, and in every
\* state each session's lines equal its order's items and add up to the
\* order's total_amount.
C20_SessionMatchesOrder ==
    SessionMatchesRequest /\ SessionsMatchOrders

\* a session was created for the priced cart: three lines, 5500 in total,
\* for order 1 of user_1
C20_Witness ==
    /\ Redirected
    /\ req.user = "user_1"
    /\ req.body.cart_items = PricedCart
    /\ Len(sessions[resp.data.session_id].line_items) = 3
    /\ SumOfLines(sessions[resp.data.session_id].line_items) = 5500
    /\ sessions[resp.data.session_id].metadata = [order_id |-> 1, user_id |-> "user_1"]
    /\ orders[1].total_amount = 5500

\* a cart item without the fields the handler does not read
WithoutPrice(item) == [product_id |-> item.product_id, quantity |-> item.quantity]

\* a checkout request without the price and total fields a client may add
WithoutPrices(r) ==
    [ handler |-> r.handler, user |-> r.user,
      body |-> [ f \in DOMAIN r.body \ {"total_amount", "total", "price"} |->
                   IF f = "cart_items"
                   THEN [ i \in 1..Len(r.body.cart_items) |->
                              WithoutPrice(r.body.cart_items[i]) ]
                   ELSE r.body[f] ] ]

\* the step handles the request of a signed-in user that carries price or
\* total fields
C21_Case ==
    /\ IsCheckout'
    /\ Has(req', "user")
    /\ WithoutPrices(req') # req'

\* the call that failed in the step ("none": no call failed)
FaultOfStep == IF failed' = {} THEN "none" ELSE CHOOSE f \in failed' : TRUE

\* C21: a step that handles a checkout request carrying price or total
\* fields leaves the orders table, the order_items table and the payment
\* sessions, and returns the response, that the handler gives from the same
\* state, under the same failure, for the request without those fields.
C21_ClientPricesIgnored ==
    [][C21_Case =>
          LET twin == CheckoutRun(WithoutPrices(req'), FaultOfStep)
          IN  /\ WithoutPrices(req') \in CheckoutRequests
              /\ orders' = twin.orders
              /\ order_items' = twin.order_items
              /\ sessions' = twin.sessions
              /\ resp' = twin.resp]_vars

\* a request whose items carry a price of 1 and whose body carries a total
\* of 1 was answered with a redirect: the order's total is 5500 and its
\* items carry the catalog prices
C21_Witness ==
    /\ Redirected
    /\ Has(req.body, "total_amount") /\ req.body.total_amount = 1
    /\ \A i \in 1..Len(req.body.cart_items) : req.body.cart_items[i].price = 1
    /\ orders[RedirectedOrderId].total_amount = 5500
    /\ \A i \in 1..Len(ItemsOf(RedirectedOrderId)) :
           ItemsOf(RedirectedOrderId)[i].product_price
               = CatalogPrice(ItemsOf(RedirectedOrderId)[i].product_id)

\* the step handles a verified checkout-completed event whose metadata
\* carries an order id and a user id
C22_Case ==
    /\ Verified(req')
    /\ req'.body.type = "checkout.session.completed"
    /\ Has(req'.body.data.object.metadata, "order_id")
    /\ Has(req'.body.data.object.metadata, "user_id")

\* C22: in such a step, when the orders update returned an error the cart
\* delete is still made (and, unless it fails too, removes the user's cart
\* rows); when the cart delete returned an error and the update did not,
\* the named order is completed all the same; the event is acknowledged.
C22_OneFailureDoesNotAbortTheOther ==
    [][C22_Case =>
          LET m == req'.body.data.object.metadata
          IN  /\ "orders.update" \in failed' =>
                     /\ calls' = <<"orders.update", "cart_items.delete">>
                     /\ "cart_items.delete" \notin failed' =>
                            cart_items' = CartWithout(m.user_id)
              /\ ("cart_items.delete" \in failed' /\ "orders.update" \notin failed') =>
                     /\ cart_items' = cart_items
                     /\ \A k \in 1..Len(orders) :
                            orders[k].id = m.order_id => CompletedBy(k, req'.body)
              /\ resp' = Ack]_vars

\* the orders update of a checkout-completed event for order 1 and user_1
\* returned an error: the order is still pending, the cart delete was made
\* and user_1 has no cart row left, user_2 has
C22_Witness ==
    /\ VerifiedCompletedFor(req, 1)
    /\ Has(req.body.data.object.metadata, "user_id")
    /\ req.body.data.object.metadata.user_id = "user_1"
    /\ failed = {"orders.update"}
    /\ calls = <<"orders.update", "cart_items.delete">>
    /\ Len(orders) >= 1 /\ orders[1].status = "pending"
    /\ \A c \in cart_items : c.user_id # "user_1"
    /\ \E c \in cart_items : c.user_id = "user_2"
    /\ resp = Ack

\* C23: in every state a pending order has no stripe_payment_intent.
C23_PendingHasNoPaymentIntent ==
    \A k \in 1..Len(orders) :
        orders[k].status = "pending" => ~Has(orders[k], "stripe_payment_intent")

\* a pending order without a payment intent after the orders update of its
\* checkout-completed event returned an error
C23_Witness ==
    /\ VerifiedCompletedFor(req, 1)
    /\ "orders.update" \in failed
    /\ Len(orders) >= 1
    /\ orders[1].status = "pending"
    /\ ~Has(orders[1], "stripe_payment_intent")

\* the step keeps every order row, with its creation columns and with no
\* column other than status, stripe_payment_intent and stripe_session_id
\* changed or added, and keeps every order_items row as it is
OrdersKeepCreationColumns ==
    /\ Len(orders') >= Len(orders)
    /\ \A k \in 1..Len(orders) :
           /\ DOMAIN orders[k] \subseteq DOMAIN orders'[k]
           /\ \A f \in DOMAIN orders'[k] :
                  f \notin {"status", "stripe_payment_intent", "stripe_session_id"} =>
                      (f \in DOMAIN orders[k] /\ orders'[k][f] = orders[k][f])
    /\ Len(order_items') >= Len(order_items)
    /\ \A i \in 1..Len(order_items) : order_items'[i] = order_items[i]

C27_CancelledOnlyFromCompleted ==
    [][\A k \in 1..Len(orders') :
          orders'[k].status = "cancelled" =>
              /\ k <= Len(orders)
              /\ orders[k].status \in {"completed", "cancelled"}]_vars

\* a verified payment-failed event left order 1 cancelled; the order carries
\* the payment intent that its completion stored
C27_Witness ==
    /\ VerifiedFailed(req)
    /\ calls = <<"orders.select", "orders.update">>
    /\ failed = {}
    /\ Len(orders) >= 1
    /\ orders[1].status = "cancelled"
    /\ IntentMatches(1, req.body)
    /\ orders[1].stripe_payment_intent = PaymentIntentOf(1)

\* C28: in every state the status of every order is pending, completed or
\* cancelled (never processing).
C28_ProcessingUnreachable ==
    \A k \in 1..Len(orders) :
        orders[k].status \in {"pending", "completed", "cancelled"}

\* the three statuses are written: an order is completed after a
\* payment-failed event for its intent whose update returned an error
C28_Witness ==
    /\ VerifiedFailed(req)
    /\ failed = {"orders.update"}
    /\ Len(orders) >= 1
    /\ IntentMatches(1, req.body)
    /\ orders[1].status = "completed"

\* the step handles a verified checkout-completed event whose metadata has
\* no order id
C29_Case ==
    /\ Verified(req')
    /\ req'.body.type = "checkout.session.completed"
    /\ ~Has(req'.body.data.object.metadata, "order_id")

\* C29: such a step answers 200 { received: true }, makes no store call and
\* leaves the orders table and the cart table as they are.
C29_MissingOrderIdIsNoOp ==
    [][C29_Case =>
          /\ resp'.status = 200
          /\ Has(resp', "received") /\ resp'.received = TRUE
          /\ calls' = <<>>
          /\ orders' = orders
          /\ cart_items' = cart_items]_vars

\* a verified checkout-completed event that names user_1 and no order was
\* acknowledged; user_1 still has a cart row and the order is still pending
C29_Witness ==
    /\ Verified(req)
    /\ req.body.type = "checkout.session.completed"
    /\ req.body.data.object.metadata = [user_id |-> "user_1"]
    /\ resp.status = 200
    /\ \E c \in cart_items : c.user_id = "user_1"
    /\ Len(orders) >= 1
    /\ orders[1].status = "pending"

\* the step handles a verified checkout-completed event whose metadata
\* names a user and an order id that is the id of no order row
C30_Case ==
    /\ C22_Case
    /\ \A k \in 1..Len(orders) :
           orders[k].id # req'.body.data.object.metadata.order_id

\* C30 as stated: such a step leaves the orders table as it is, deletes the
\* cart rows of the named user and acknowledges.
C30_UnknownOrderStillClearsCart ==
    [][C30_Case =>
          /\ orders' = orders
          /\ cart_items' = CartWithout(req'.body.data.object.metadata.user_id)
          /\ resp' = Ack]_vars

\* C30 as amended: such a step leaves the orders table as it is, makes the
\* cart delete and acknowledges; the cart rows of the named user, and no
\* others, are deleted unless the delete returned an error (then the cart
\* table is as before).
C30_UnknownOrderStillClearsCartUnlessStoreError ==
    [][C30_Case =>
          /\ orders' = orders
          /\ calls' = <<"orders.update", "cart_items.delete">>
          /\ cart_items' =
                 IF "cart_items.delete" \in failed' THEN cart_items
                 ELSE CartWithout(req'.body.data.object.metadata.user_id)
          /\ resp' = Ack]_vars

\* a verified checkout-completed event naming user_1 and an order id of no
\* row was handled without a store error while the store holds a pending
\* order: the order is still pending, user_1 has no cart row, user_2 has
C30_Witness ==
    /\ Verified(req)
    /\ req.body.type = "checkout.session.completed"
    /\ req.body.data.object.metadata =
           [order_id |-> UnknownOrderId, user_id |-> "user_1"]
    /\ failed = {}
    /\ Len(orders) >= 1
    /\ \A k \in 1..Len(orders) : orders[k].status = "pending"
    /\ \A c \in cart_items : c.user_id # "user_1"
    /\ \E c \in cart_items : c.user_id = "user_2"
    /\ resp = Ack

\* process p has made call c and it returned no error
Succeeded(p, c) == c \in Range(calls[p]) /\ c \notin failed[p]

\* both deliveries have been answered
DeliveriesAnswered == \A d \in Deliveries : resp[d] # <<>>

\* the order of the flight is completed and carries the event's intent
FlightOrderCompleted ==
    /\ orders[1].status = "completed"
    /\ Has(orders[1], "stripe_payment_intent")
    /\ orders[1].stripe_payment_intent
           = req["delivery_1"].body.data.object.payment_intent

====
